---- MODULE Spec2Model ----
(***************************************************************************)
(* Model of src/symsrv/mod.rs of pdblister: the symbol-server identifier   *)
(* model (ExeInfo, PdbInfo, SymFileInfo), the server specification parser  *)
(* (SymSrvSpec, SymSrvList), the cache layout helpers (is_two_tier,        *)
(* two_tier_prefix) and the per-request retrieval over a server list.      *)
(*                                                                         *)
(* A Rust string is a sequence of characters, each character a one-name    *)
(* TLA+ string ("S", "*", "U0130" for U+0130).  An unsigned integer wider  *)
(* than TLC's integers is a sequence of 16-bit limbs, most significant   *)
(* first: a u32 has 2 limbs, a u128 has 8.                                 *)
(***************************************************************************)
EXTENDS Integers, Sequences, FiniteSets, TLC

VARIABLES
    srv, step, spec_res, shown, reparsed, list_res,   \* Spec Parser
    info, istep, hash,                                \* Identifier Model
    name, pstep, prefix, prefix2,                     \* two_tier_prefix
    files, calls,                                     \* is_two_tier
    servers, state, idx, attempts, errors, outcome    \* retrieval

parser_vars == <<srv, step, spec_res, shown, reparsed, list_res>>
ident_vars == <<info, istep, hash>>
prefix_vars == <<name, pstep, prefix, prefix2>>
tier_vars == <<files, calls>>
dl_vars == <<servers, state, idx, attempts, errors, outcome>>
vars == <<parser_vars, ident_vars, prefix_vars, tier_vars, dl_vars>>

\* What each component leaves alone.
not_parser_vars == <<ident_vars, prefix_vars, tier_vars, dl_vars>>
not_ident_vars == <<parser_vars, prefix_vars, tier_vars, dl_vars>>
not_prefix_vars == <<parser_vars, ident_vars, tier_vars, dl_vars>>
not_tier_vars == <<parser_vars, ident_vars, prefix_vars, dl_vars>>
not_retrieve_vars == <<parser_vars, ident_vars, prefix_vars, tier_vars>>

(***************************************************************************)
(* Bounds of the model.                                                    *)
(***************************************************************************)
MaxTokens == 4
MaxSpecs == 3
MaxNameLen == 3
MaxCalls == 3
MaxServers == 3

\* A value not yet computed.
Pending == [pending |-> TRUE]

(***************************************************************************)
(* Strings.                                                                *)
(***************************************************************************)
\* str::split(char): always at least one piece; "" gives one empty piece.
RECURSIVE SplitFrom(_, _, _, _)
SplitFrom(s, d, i, cur) ==
    IF i > Len(s) THEN <<cur>>
    ELSE IF s[i] = d THEN <<cur>> \o SplitFrom(s, d, i + 1, <<>>)
    ELSE SplitFrom(s, d, i + 1, Append(cur, s[i]))

SplitDropEmpty(s, d) ==
    SelectSeq(SplitFrom(s, d, 1, <<>>), LAMBDA t : t # <<>>)

Split(s, d) ==
    SplitFrom(s, d, 1, <<>>)

\* u8::to_ascii_lowercase: only 'A'..'Z' change.
to_ascii_lowercase(c) ==
    CASE c = "S" -> "s"
      [] c = "R" -> "r"
      [] c = "V" -> "v"
      [] c = "X" -> "x"
      [] c = "C" -> "c"
      [] c = "D" -> "d"
      [] OTHER -> c

\* str::eq_ignore_ascii_case: same length, bytes equal after ASCII lowering.
eq_ignore_ascii_case(a, b) ==
    /\ Len(a) = Len(b)
    /\ \A i \in 1..Len(a) : to_ascii_lowercase(a[i]) = to_ascii_lowercase(b[i])

(***************************************************************************)
(* Spec Parser: SymSrvSpec and SymSrvList.                                 *)
(***************************************************************************)
Ok(v) == [ok |-> TRUE, val |-> v]
Err(m) == [ok |-> FALSE, err |-> m]

UnsupportedForm ==
    "Unsupported server string form; only 'SRV*<CACHE_PATH>*<SYMBOL_SERVER>' supported"

SRV == <<"S", "R", "V">>

\* SymSrvSpec { server_url, cache_path }
SymSrvSpec(url, cache) == [server_url |-> url, cache_path |-> cache]

SymSrvSpec_from_str_swapped(s) ==
    LET directives == Split(s, "*")
    IN  IF Len(directives) = 0 THEN Err(UnsupportedForm)
        ELSE IF eq_ignore_ascii_case(directives[1], SRV)
             THEN IF Len(directives) # 3 THEN Err(UnsupportedForm)
                  ELSE Ok(SymSrvSpec(directives[2], directives[3]))
             ELSE Err(UnsupportedForm)

\* <SymSrvSpec as FromStr>::from_str
SymSrvSpec_from_str(s) ==
    LET directives == Split(s, "*")
    IN  IF Len(directives) = 0 THEN Err(UnsupportedForm)
        ELSE IF eq_ignore_ascii_case(directives[1], SRV)
             THEN IF Len(directives) # 3 THEN Err(UnsupportedForm)
                  ELSE Ok(SymSrvSpec(directives[3], directives[2]))
             ELSE Err(UnsupportedForm)

\* Path::display: lossy, a unit that is not valid Unicode shows as U+FFFD.
\* A path built from a &str holds no such unit.
path_display(p) ==
    [i \in 1..Len(p) |-> IF p[i] = "INVALID" THEN "UFFFD" ELSE p[i]]

SymSrvSpec_fmt_no_separator(spec) ==
    <<"S", "R", "V", "*">> \o path_display(spec.cache_path) \o spec.server_url

\* <SymSrvSpec as Display>::fmt: "SRV*{}*{}"
SymSrvSpec_fmt(spec) ==
    <<"S", "R", "V", "*">> \o path_display(spec.cache_path) \o <<"*">> \o spec.server_url

\* collect::<anyhow::Result<Vec<_>>>(): the first Err, else every value in order.
RECURSIVE collect_results(_)
collect_results(rs) ==
    IF rs = <<>> THEN Ok(<<>>)
    ELSE IF ~rs[1].ok THEN rs[1]
    ELSE LET rest == collect_results(Tail(rs))
         IN  IF rest.ok THEN Ok(<<rs[1].val>> \o rest.val) ELSE rest

SymSrvList_from_str_skip_errors(s) ==
    LET server_list == Split(s, ";")
        parsed == [i \in 1..Len(server_list) |-> SymSrvSpec_from_str(server_list[i])]
        good == SelectSeq(parsed, LAMBDA r : r.ok)
    IN  Ok([i \in 1..Len(good) |-> good[i].val])

SymSrvList_from_str_drop_empty(s) ==
    LET server_list == SplitDropEmpty(s, ";")
    IN  collect_results([i \in 1..Len(server_list) |-> SymSrvSpec_from_str(server_list[i])])

\* <SymSrvList as FromStr>::from_str
SymSrvList_from_str(s) ==
    LET server_list == Split(s, ";")
    IN  IF Len(server_list) = 0 THEN Err("Invalid server string")
        ELSE collect_results(
                 [i \in 1..Len(server_list) |-> SymSrvSpec_from_str(server_list[i])])

(***************************************************************************)
(* Identifier Model: ExeInfo, PdbInfo, SymFileInfo.                        *)
(***************************************************************************)
\* The radix of the "x" and "X" formats.
Radix == 16

IsZero(n) ==
    \A i \in 1..Len(n) : n[i] = 0

\* n % 16
Mod16(n) ==
    n[Len(n)] % Radix

\* n / 16: every limb shifts right one hex digit and takes the digit its
\* more significant neighbour drops.
Div16(n) ==
    [i \in 1..Len(n) |->
        (n[i] \div Radix) + (IF i = 1 THEN 0 ELSE (n[i - 1] % Radix) * 4096)]

LowerDigits ==
    <<"0", "1", "2", "3", "4", "5", "6", "7", "8", "9", "a", "b", "c", "d", "e", "f">>

UpperDigits ==
    <<"0", "1", "2", "3", "4", "5", "6", "7", "8", "9", "A", "B", "C", "D", "E", "F">>

\* core::fmt radix 16: digits from the least significant, at least one.
RECURSIVE fmt_radix16(_, _)
fmt_radix16(n, digits) ==
    LET d == Mod16(n)
        q == Div16(n)
    IN  IF IsZero(q) THEN <<digits[d + 1]>>
        ELSE fmt_radix16(q, digits) \o <<digits[d + 1]>>

\* Formatter::pad_integral with the '0' flag: zeros on the left up to width.
pad_integral(width, buf) ==
    IF Len(buf) >= width THEN buf
    ELSE [i \in 1..(width - Len(buf)) |-> "0"] \o buf

ExeInfo_to_string_unpadded(i) ==
    fmt_radix16(i.timestamp, LowerDigits) \o fmt_radix16(i.size, LowerDigits)

\* ExeInfo::to_string: format!("{:08x}{:x}", timestamp, size)
ExeInfo_to_string(i) ==
    pad_integral(8, fmt_radix16(i.timestamp, LowerDigits))
        \o fmt_radix16(i.size, LowerDigits)

PdbInfo_to_string_lower_guid(i) ==
    pad_integral(32, fmt_radix16(i.guid, LowerDigits))
        \o fmt_radix16(i.age, LowerDigits)

\* PdbInfo::to_string: format!("{:032X}{:x}", guid, age)
PdbInfo_to_string(i) ==
    pad_integral(32, fmt_radix16(i.guid, UpperDigits))
        \o fmt_radix16(i.age, LowerDigits)

\* SymFileInfo::to_string
SymFileInfo_to_string(i) ==
    CASE i.kind = "Exe" -> ExeInfo_to_string(i)
      [] i.kind = "Pdb" -> PdbInfo_to_string(i)
      [] i.kind = "RawHash" -> i.h

(***************************************************************************)
(* Cache Layout Resolver: two_tier_prefix.                                 *)
(***************************************************************************)
\* core::unicode::Cased, on the characters of the model.
Cased(c) ==
    c \in {"N", "T", "n", "t", "i", "U0130", "U03A3", "U03C3", "U03C2"}

\* core::unicode::Case_Ignorable: the full stop and the combining dot above.
Case_Ignorable(c) ==
    c \in {".", "U0307"}

\* char::to_lowercase: one to three characters.  U+0130 (capital I with dot
\* above) lowers to "i" followed by U+0307 (combining dot above).
char_to_lowercase(c) ==
    CASE c = "N" -> <<"n">>
      [] c = "T" -> <<"t">>
      [] c = "U0130" -> <<"i", "U0307">>
      [] c = "U03A3" -> <<"U03C3">>
      [] OTHER -> <<c>>

RECURSIVE skip_case_ignorable(_)
skip_case_ignorable(cs) ==
    IF cs # <<>> /\ Case_Ignorable(cs[1]) THEN skip_case_ignorable(Tail(cs)) ELSE cs

case_ignorable_then_cased(cs) ==
    LET rest == skip_case_ignorable(cs)
    IN  rest # <<>> /\ Cased(rest[1])

Reverse(cs) ==
    [i \in 1..Len(cs) |-> cs[Len(cs) + 1 - i]]

\* str::to_lowercase's rule for U+03A3 (capital sigma): final sigma U+03C2 at
\* the end of a word, U+03C3 elsewhere.
map_uppercase_sigma(from, i) ==
    IF /\ case_ignorable_then_cased(Reverse(SubSeq(from, 1, i - 1)))
       /\ ~case_ignorable_then_cased(SubSeq(from, i + 1, Len(from)))
    THEN "U03C2"
    ELSE "U03C3"

RECURSIVE lower_from(_, _)
lower_from(s, i) ==
    IF i > Len(s) THEN <<>>
    ELSE (IF s[i] = "U03A3" THEN <<map_uppercase_sigma(s, i)>>
          ELSE char_to_lowercase(s[i])) \o lower_from(s, i + 1)

\* str::to_lowercase
str_to_lowercase(s) ==
    lower_from(s, 1)

\* Iterator::take(n) and collect
take(s, n) ==
    SubSeq(s, 1, IF Len(s) < n THEN Len(s) ELSE n)

two_tier_prefix_lower_then_take(name_) ==
    take(str_to_lowercase(name_), 2)

\* two_tier_prefix: name.chars().take(2).collect::<String>().to_lowercase()
two_tier_prefix(name_) ==
    str_to_lowercase(take(name_, 2))

(***************************************************************************)
(* Cache Layout Resolver: is_two_tier.  A path is its sequence of          *)
(* components; files is the set of the regular files that exist.           *)
(***************************************************************************)
\* Path::join with a relative component.
path_join(p, c) ==
    Append(p, c)

\* Path::exists
path_exists(p) ==
    p \in files

is_two_tier_cached(cache_path) ==
    LET earlier == SelectSeq(calls, LAMBDA c : c.cache_path = cache_path)
    IN  IF earlier # <<>> THEN earlier[1].ret
        ELSE path_exists(path_join(cache_path, "index2.txt"))

\* is_two_tier: cache_path.join("index2.txt").exists()
is_two_tier(cache_path) ==
    path_exists(path_join(cache_path, "index2.txt"))

(***************************************************************************)
(* Retrieval over a server list: the download outcome types of the module  *)
(* and the per-request state machine they serve.                           *)
(***************************************************************************)
\* enum DownloadError
DownloadError == {"FileNotFound", "Request", "Other"}

\* enum DownloadStatus
DownloadStatus == {"AlreadyExists", "DownloadedOk"}

\* What the transport answers for one server.
Responses == {"ok", "not_found", "transport_error"}

RetrievalStates ==
    {"NotStarted", "CheckingCache", "Fetching", "CacheWrite", "Succeeded",
     "ExhaustedFailed"}

\* The error of an exhausted list: not-found when every failure was
\* not-found, else the most recent transport failure.
aggregate(errs) ==
    LET others == SelectSeq(errs, LAMBDA e : e # "FileNotFound")
    IN  IF others = <<>> THEN "FileNotFound" ELSE others[Len(others)]

\* After a failure at server idx: the next server, or exhaustion.
advance(errs) ==
    IF idx < Len(servers)
    THEN /\ state' = "CheckingCache"
         /\ idx' = idx + 1
         /\ outcome' = outcome
    ELSE /\ state' = "ExhaustedFailed"
         /\ idx' = idx
         /\ outcome' = [error |-> aggregate(errs)]

(***************************************************************************)
(* The components at rest.                                                 *)
(***************************************************************************)
IdleParser ==
    /\ srv = <<>>
    /\ step = "idle"
    /\ spec_res = Pending
    /\ shown = Pending
    /\ reparsed = Pending
    /\ list_res = Pending

IdleIdent ==
    /\ info = Pending
    /\ istep = "idle"
    /\ hash = Pending

IdlePrefix ==
    /\ name = <<>>
    /\ pstep = "idle"
    /\ prefix = Pending
    /\ prefix2 = Pending

IdleTier ==
    /\ files = {}
    /\ calls = <<>>

IdleRetrieve ==
    /\ servers = <<>>
    /\ state = "idle"
    /\ idx = 0
    /\ attempts = <<>>
    /\ errors = <<>>
    /\ outcome = Pending

(***************************************************************************)
(* Spec Parser: the inputs and the calls.                                  *)
(***************************************************************************)
RECURSIVE Join(_, _)
Join(ts, d) ==
    IF ts = <<>> THEN <<>>
    ELSE IF Len(ts) = 1 THEN ts[1]
    ELSE ts[1] \o <<d>> \o Join(Tail(ts), d)

\* Tokens free of '*' and ';': empty, the keyword in two spellings, a near
\* miss of the keyword, a path.
Tokens ==
    {<<>>, SRV, <<"s", "R", "v">>, <<"S", "R">>, <<"C">>}

SeqsUpTo(S, n) ==
    UNION {[1..k -> S] : k \in 1..n}

\* Every '*'-join of 1..MaxTokens tokens.
SpecInputs ==
    {Join(ts, "*") : ts \in SeqsUpTo(Tokens, MaxTokens)}

\* Substrings of a list: "", "SRV*C*u", "srv*D*" (empty URL), "SRV*C" (two
\* tokens), "X*C*u" (wrong keyword), "sRv*sRv*SRV".
ListItems ==
    {<<>>,
     <<"S", "R", "V", "*", "C", "*", "u">>,
     <<"s", "r", "v", "*", "D", "*">>,
     <<"S", "R", "V", "*", "C">>,
     <<"X", "*", "C", "*", "u">>,
     <<"s", "R", "v", "*", "s", "R", "v", "*", "S", "R", "V">>}

\* Every ';'-join of 1..MaxSpecs such substrings.
ListInputs ==
    {Join(items, ";") : items \in SeqsUpTo(ListItems, MaxSpecs)}

InitParser ==
    /\ srv \in SpecInputs \cup ListInputs
    /\ step = "start"
    /\ spec_res = Pending
    /\ shown = Pending
    /\ reparsed = Pending
    /\ list_res = Pending
    /\ IdleIdent /\ IdlePrefix /\ IdleTier /\ IdleRetrieve

\* srv.parse::<SymSrvSpec>()
ParseSpec ==
    /\ step = "start"
    /\ spec_res' = SymSrvSpec_from_str(srv)
    /\ step' = "spec"
    /\ UNCHANGED <<srv, shown, reparsed, list_res>>
    /\ UNCHANGED not_parser_vars

\* spec.to_string(), through Display
DisplaySpec ==
    /\ step = "spec"
    /\ spec_res.ok
    /\ shown' = SymSrvSpec_fmt(spec_res.val)
    /\ step' = "shown"
    /\ UNCHANGED <<srv, spec_res, reparsed, list_res>>
    /\ UNCHANGED not_parser_vars

\* shown.parse::<SymSrvSpec>()
ReparseSpec ==
    /\ step = "shown"
    /\ reparsed' = SymSrvSpec_from_str(shown)
    /\ step' = "reparsed"
    /\ UNCHANGED <<srv, spec_res, shown, list_res>>
    /\ UNCHANGED not_parser_vars

\* srv.parse::<SymSrvList>()
ParseList ==
    /\ step = "start"
    /\ list_res' = SymSrvList_from_str(srv)
    /\ step' = "list"
    /\ UNCHANGED <<srv, spec_res, shown, reparsed>>
    /\ UNCHANGED not_parser_vars

NextParser ==
    \/ ParseSpec
    \/ DisplaySpec
    \/ ReparseSpec
    \/ ParseList

SpecParser == InitParser /\ [][NextParser]_vars

(***************************************************************************)
(* Identifier Model: the inputs and the call.                              *)
(***************************************************************************)
\* Limb values: 0, 1, 0x5f4, 0x2000, 0xabcd, 0xffff.
LimbSamples ==
    {0, 1, 1524, 8192, 43981, 65535}

U32Samples ==
    {<<hi, lo>> : hi \in LimbSamples, lo \in LimbSamples}

\* 128-bit values: one limb anywhere, one in the least significant place,
\* zero elsewhere; and the all-ones value.
U128Samples ==
    {[i \in 1..8 |-> IF i = p THEN v ELSE IF i = 8 THEN w ELSE 0] :
        p \in 1..8, v \in LimbSamples, w \in {0, 43981}}
    \cup {[i \in 1..8 |-> 65535]}

RawHashSamples ==
    {<<>>, <<"A", "b", "0">>, <<"0", "0", "F", "f">>}

InfoSamples ==
    {[kind |-> "Exe", timestamp |-> t, size |-> z] : t \in U32Samples, z \in U32Samples}
    \cup {[kind |-> "Pdb", guid |-> g, age |-> a] : g \in U128Samples, a \in U32Samples}
    \cup {[kind |-> "RawHash", h |-> h] : h \in RawHashSamples}

InitIdent ==
    /\ info \in InfoSamples
    /\ istep = "start"
    /\ hash = Pending
    /\ IdleParser /\ IdlePrefix /\ IdleTier /\ IdleRetrieve

\* info.to_string()
RenderHash ==
    /\ istep = "start"
    /\ hash' = SymFileInfo_to_string(info)
    /\ istep' = "done"
    /\ UNCHANGED info
    /\ UNCHANGED not_ident_vars

NextIdent ==
    \/ RenderHash

SpecIdent == InitIdent /\ [][NextIdent]_vars

(***************************************************************************)
(* two_tier_prefix: the inputs and the calls.                              *)
(***************************************************************************)
NameChars ==
    {"N", "n", "t", ".", "U0130", "U03A3"}

NameInputs ==
    {<<>>} \cup SeqsUpTo(NameChars, MaxNameLen)

InitPrefix ==
    /\ name \in NameInputs
    /\ pstep = "start"
    /\ prefix = Pending
    /\ prefix2 = Pending
    /\ IdleParser /\ IdleIdent /\ IdleTier /\ IdleRetrieve

\* two_tier_prefix(name)
ApplyPrefix ==
    /\ pstep = "start"
    /\ prefix' = two_tier_prefix(name)
    /\ pstep' = "once"
    /\ UNCHANGED <<name, prefix2>>
    /\ UNCHANGED not_prefix_vars

\* two_tier_prefix(&prefix)
ApplyPrefixAgain ==
    /\ pstep = "once"
    /\ prefix2' = two_tier_prefix(prefix)
    /\ pstep' = "twice"
    /\ UNCHANGED <<name, prefix>>
    /\ UNCHANGED not_prefix_vars

NextPrefix ==
    \/ ApplyPrefix
    \/ ApplyPrefixAgain

SpecPrefix == InitPrefix /\ [][NextPrefix]_vars

(***************************************************************************)
(* is_two_tier: the filesystem and the calls.                              *)
(***************************************************************************)
\* Two cache roots, one inside the other.
CacheRoots ==
    {<<"cache">>, <<"cache", "sub">>}

FileNames ==
    {"index2.txt", "index.txt"}

FilePaths ==
    {path_join(r, n) : r \in CacheRoots, n \in FileNames}

InitTier ==
    /\ files = {}
    /\ calls = <<>>
    /\ IdleParser /\ IdleIdent /\ IdlePrefix /\ IdleRetrieve

\* fs::write(path, "")
CreateFile(p) ==
    /\ p \notin files
    /\ files' = files \cup {p}
    /\ UNCHANGED calls
    /\ UNCHANGED not_tier_vars

\* fs::remove_file(path)
DeleteFile(p) ==
    /\ p \in files
    /\ files' = files \ {p}
    /\ UNCHANGED calls
    /\ UNCHANGED not_tier_vars

\* is_two_tier(cache_path), its result logged
CallIsTwoTier(cache_path) ==
    /\ Len(calls) < MaxCalls
    /\ calls' = Append(calls, [cache_path |-> cache_path, ret |-> is_two_tier(cache_path)])
    /\ UNCHANGED files
    /\ UNCHANGED not_tier_vars

NextTier ==
    \/ \E p \in FilePaths : CreateFile(p)
    \/ \E p \in FilePaths : DeleteFile(p)
    \/ \E r \in CacheRoots : CallIsTwoTier(r)

SpecTier == InitTier /\ [][NextTier]_vars

(***************************************************************************)
(* Retrieval: one request over an ordered server list.  servers[i] says    *)
(* whether server i's cache holds the file and what its transport answers. *)
(***************************************************************************)
ServerEnvs ==
    [cached : BOOLEAN, response : Responses]

InitRetrieve ==
    /\ servers \in SeqsUpTo(ServerEnvs, MaxServers)
    /\ state = "NotStarted"
    /\ idx = 0
    /\ attempts = <<>>
    /\ errors = <<>>
    /\ outcome = Pending
    /\ IdleParser /\ IdleIdent /\ IdlePrefix /\ IdleTier

\* NotStarted -> CheckingCache(server_1)
Start ==
    /\ state = "NotStarted"
    /\ state' = "CheckingCache"
    /\ idx' = 1
    /\ UNCHANGED <<servers, attempts, errors, outcome>>
    /\ UNCHANGED not_retrieve_vars

\* CacheHit -> Succeeded: AlreadyExists, no network call
CacheHit ==
    /\ state = "CheckingCache"
    /\ servers[idx].cached
    /\ state' = "Succeeded"
    /\ outcome' = [status |-> "AlreadyExists"]
    /\ UNCHANGED <<servers, idx, attempts, errors>>
    /\ UNCHANGED not_retrieve_vars

\* CacheMiss -> Fetching(server_i): the transport is called
CacheMiss ==
    /\ state = "CheckingCache"
    /\ ~servers[idx].cached
    /\ state' = "Fetching"
    /\ attempts' = Append(attempts, idx)
    /\ UNCHANGED <<servers, idx, errors, outcome>>
    /\ UNCHANGED not_retrieve_vars

\* FetchOk -> CacheWrite
FetchOk ==
    /\ state = "Fetching"
    /\ servers[idx].response = "ok"
    /\ state' = "CacheWrite"
    /\ UNCHANGED <<servers, idx, attempts, errors, outcome>>
    /\ UNCHANGED not_retrieve_vars

\* CacheWrite -> Succeeded: the file is published, DownloadedOk
CacheWrite ==
    /\ state = "CacheWrite"
    /\ servers' = [servers EXCEPT ![idx].cached = TRUE]
    /\ state' = "Succeeded"
    /\ outcome' = [status |-> "DownloadedOk"]
    /\ UNCHANGED <<idx, attempts, errors>>
    /\ UNCHANGED not_retrieve_vars

FetchNotFound_fatal ==
    /\ state = "Fetching"
    /\ servers[idx].response = "not_found"
    /\ errors' = Append(errors, "FileNotFound")
    /\ state' = "ExhaustedFailed"
    /\ outcome' = [error |-> "FileNotFound"]
    /\ UNCHANGED <<servers, idx, attempts>>
    /\ UNCHANGED not_retrieve_vars

\* FetchNotFound -> next server, or ExhaustedFailed after the last
FetchNotFound ==
    /\ state = "Fetching"
    /\ servers[idx].response = "not_found"
    /\ errors' = Append(errors, "FileNotFound")
    /\ advance(errors')
    /\ UNCHANGED <<servers, attempts>>
    /\ UNCHANGED not_retrieve_vars

\* FetchTransportError -> recorded, then next server or ExhaustedFailed
FetchTransportError ==
    /\ state = "Fetching"
    /\ servers[idx].response = "transport_error"
    /\ errors' = Append(errors, "Request")
    /\ advance(errors')
    /\ UNCHANGED <<servers, attempts>>
    /\ UNCHANGED not_retrieve_vars

NextRetrieve ==
    \/ Start
    \/ CacheHit
    \/ CacheMiss
    \/ FetchOk
    \/ CacheWrite
    \/ FetchNotFound
    \/ FetchTransportError

SpecRetrieve == InitRetrieve /\ [][NextRetrieve]_vars

(***************************************************************************)
(* Properties of the Spec Parser.                                          *)
(***************************************************************************)
\* The pieces of s between its delimiters d, read off the delimiter places.
DelimPlaces(s, d) ==
    {i \in 1..Len(s) : s[i] = d}

NthPlace(s, d, k) ==
    IF k = 0 THEN 0
    ELSE IF k > Cardinality(DelimPlaces(s, d)) THEN Len(s) + 1
    ELSE CHOOSE i \in DelimPlaces(s, d) :
             Cardinality({j \in DelimPlaces(s, d) : j < i}) = k - 1

Pieces(s, d) ==
    [k \in 1..(Cardinality(DelimPlaces(s, d)) + 1) |->
        SubSeq(s, NthPlace(s, d, k - 1) + 1, NthPlace(s, d, k) - 1)]

\* "SRV" in every mix of upper and lower case.
KeywordForms ==
    {<<a, b, c>> : a \in {"S", "s"}, b \in {"R", "r"}, c \in {"V", "v"}}

SpecParsed ==
    step \in {"spec", "shown", "reparsed"}

\* C1: SymSrvSpec::from_str(s) succeeds exactly when s has three '*'-separated
\* tokens and the first is "SRV" in any ASCII case; on success cache_path is
\* the second token and server_url the third, verbatim; otherwise it returns
\* an error and no SymSrvSpec.
C1_FromStrGrammar ==
    SpecParsed =>
        LET toks == Pieces(srv, "*")
            wellFormed == Len(toks) = 3 /\ toks[1] \in KeywordForms
        IN  /\ spec_res.ok <=> wellFormed
            /\ spec_res.ok =>
                   spec_res = [ok |-> TRUE,
                               val |-> [server_url |-> toks[3], cache_path |-> toks[2]]]
            /\ ~spec_res.ok => DOMAIN spec_res = {"ok", "err"}

\* C1 witness: a lower-case keyword accepted, the two fields different.
C1_Witness ==
    /\ step = "spec"
    /\ srv = <<"s", "R", "v", "*", "C", "*", "S", "R">>
    /\ spec_res.ok
    /\ spec_res.val.cache_path = <<"C">>
    /\ spec_res.val.server_url = <<"S", "R">>

\* C2: SymSrvList::from_str(s) parses every ';'-separated substring of s as a
\* SymSrvSpec: when all parse, the result is their specs, as many and in the
\* same order; when any fails, the call is an error and carries no list.
C2_ListParse ==
    step = "list" =>
        LET subs == Pieces(srv, ";")
            each == [k \in 1..Len(subs) |-> SymSrvSpec_from_str(subs[k])]
        IN  IF \A k \in 1..Len(subs) : each[k].ok
            THEN list_res = [ok |-> TRUE, val |-> [k \in 1..Len(subs) |-> each[k].val]]
            ELSE ~list_res.ok /\ DOMAIN list_res = {"ok", "err"}

\* C2 witness: "SRV*C*u;srv*D*" parsed to two specs in that order.
C2_Witness ==
    /\ step = "list"
    /\ srv = <<"S", "R", "V", "*", "C", "*", "u", ";", "s", "r", "v", "*", "D", "*">>
    /\ list_res.ok
    /\ Len(list_res.val) = 2
    /\ list_res.val[1].cache_path = <<"C">>
    /\ list_res.val[2].cache_path = <<"D">>

\* C7: for every accepted s, Display renders the parsed spec as
\* "SRV*<cache_path>*<server_url>" with the upper-case keyword, and parsing the
\* rendering gives a spec equal to the first.
C7_RoundTrip ==
    /\ step \in {"shown", "reparsed"} =>
           shown = <<"S", "R", "V", "*">> \o spec_res.val.cache_path
                       \o <<"*">> \o spec_res.val.server_url
    /\ step = "reparsed" => reparsed.ok /\ reparsed.val = spec_res.val

\* C7 witness: an input with a mixed-case keyword, rendered differently from
\* the input and parsed again.
C7_Witness ==
    /\ step = "reparsed"
    /\ srv = <<"s", "R", "v", "*", "C", "*", "S", "R">>
    /\ shown # srv
    /\ reparsed.ok

\* C8: every SymSrvSpec of a successful parse, alone or in a list, has a
\* non-empty server_url.
C8_UrlNeverEmpty ==
    /\ (SpecParsed /\ spec_res.ok) => spec_res.val.server_url # <<>>
    /\ (step = "list" /\ list_res.ok) =>
           \A k \in 1..Len(list_res.val) : list_res.val[k].server_url # <<>>

\* C9: SymSrvList::from_str never returns an empty list: the empty input is
\* an error, and every success holds at least one SymSrvSpec.
C9_ListNonEmpty ==
    step = "list" =>
        /\ srv = <<>> => ~list_res.ok
        /\ list_res.ok => Len(list_res.val) >= 1

\* C9 witness: the empty input, refused.
C9_Witness ==
    /\ step = "list"
    /\ srv = <<>>
    /\ ~list_res.ok
    /\ list_res.err = UnsupportedForm

(***************************************************************************)
(* Properties of the Identifier Model.                                     *)
(***************************************************************************)
LowerHexChars ==
    {"0", "1", "2", "3", "4", "5", "6", "7", "8", "9", "a", "b", "c", "d", "e", "f"}

UpperHexChars ==
    {"0", "1", "2", "3", "4", "5", "6", "7", "8", "9", "A", "B", "C", "D", "E", "F"}

\* The value of one hexadecimal digit of either case.
HexDigitValue(c) ==
    CASE c = "0" -> 0 [] c = "1" -> 1 [] c = "2" -> 2 [] c = "3" -> 3
      [] c = "4" -> 4 [] c = "5" -> 5 [] c = "6" -> 6 [] c = "7" -> 7
      [] c = "8" -> 8 [] c = "9" -> 9
      [] c \in {"a", "A"} -> 10 [] c \in {"b", "B"} -> 11
      [] c \in {"c", "C"} -> 12 [] c \in {"d", "D"} -> 13
      [] c \in {"e", "E"} -> 14 [] c \in {"f", "F"} -> 15

\* The number a digit string of at most 4 * limbs digits denotes, as limbs.
HexToLimbs(ds, limbs) ==
    LET padded == [i \in 1..(4 * limbs - Len(ds)) |-> "0"] \o ds
    IN  [k \in 1..limbs |->
            HexDigitValue(padded[4 * k - 3]) * 4096
          + HexDigitValue(padded[4 * k - 2]) * 256
          + HexDigitValue(padded[4 * k - 1]) * 16
          + HexDigitValue(padded[4 * k])]

\* A number written without padding: no leading zero, except "0" itself.
Unpadded(ds) ==
    Len(ds) >= 1 /\ (ds[1] = "0" => Len(ds) = 1)

AllIn(ds, S) ==
    \A i \in 1..Len(ds) : ds[i] \in S

\* C3: the string of ExeInfo{timestamp, size} is the timestamp as exactly 8
\* lower-case hexadecimal digits, zero-padded, directly followed by the size in
\* lower-case hexadecimal without padding (0 renders as "0").
C3_ExeHash ==
    (istep = "done" /\ info.kind = "Exe") =>
        LET ts == SubSeq(hash, 1, 8)
            sz == SubSeq(hash, 9, Len(hash))
        IN  /\ Len(hash) >= 9 /\ Len(hash) <= 16
            /\ AllIn(hash, LowerHexChars)
            /\ HexToLimbs(ts, 2) = info.timestamp
            /\ Unpadded(sz)
            /\ HexToLimbs(sz, 2) = info.size

\* C3 witness: timestamp 0x5f4, size 0x2000 give "000005f42000".
C3_Witness ==
    /\ istep = "done"
    /\ info = [kind |-> "Exe", timestamp |-> <<0, 1524>>, size |-> <<0, 8192>>]
    /\ hash = <<"0", "0", "0", "0", "0", "5", "f", "4", "2", "0", "0", "0">>

\* C4: the string of PdbInfo{guid, age} is the guid as exactly 32 upper-case
\* hexadecimal digits, zero-padded, directly followed by the age in lower-case
\* hexadecimal without padding (0 renders as "0", never omitted).
C4_PdbHash ==
    (istep = "done" /\ info.kind = "Pdb") =>
        LET gd == SubSeq(hash, 1, 32)
            ag == SubSeq(hash, 33, Len(hash))
        IN  /\ Len(hash) >= 33 /\ Len(hash) <= 40
            /\ AllIn(gd, UpperHexChars)
            /\ HexToLimbs(gd, 8) = info.guid
            /\ AllIn(ag, LowerHexChars)
            /\ Unpadded(ag)
            /\ HexToLimbs(ag, 2) = info.age

\* C4 witness: guid 0xABCD and age 0xabcd0000, the two parts in different case.
C4_Witness ==
    /\ istep = "done"
    /\ info.kind = "Pdb"
    /\ info.guid = <<0, 0, 0, 0, 0, 0, 0, 43981>>
    /\ info.age = <<43981, 0>>
    /\ SubSeq(hash, 29, Len(hash))
           = <<"A", "B", "C", "D", "a", "b", "c", "d", "0", "0", "0", "0">>

(***************************************************************************)
(* Properties of two_tier_prefix.                                          *)
(***************************************************************************)
PrefixApplied ==
    pstep \in {"once", "twice"}

FirstTwo(s) ==
    IF Len(s) >= 2 THEN <<s[1], s[2]>> ELSE s

\* An input that lower-casing leaves as it is.
AlreadyLower(s) ==
    str_to_lowercase(s) = s

\* A character whose lower-case form is longer than one character.
LowersLonger(c) ==
    Len(char_to_lowercase(c)) > 1

IndexPresent(fs, root) ==
    \E f \in fs :
        /\ Len(f) = Len(root) + 1
        /\ SubSeq(f, 1, Len(root)) = root
        /\ f[Len(f)] = "index2.txt"

\* C5: whatever files were created and deleted before, a call of
\* is_two_tier(root) returns true exactly when index2.txt exists directly
\* under root at the moment of the call, whatever earlier calls returned.
C5_TwoTierFresh ==
    [][Len(calls') > Len(calls) =>
          LET c == calls'[Len(calls')]
          IN  c.ret = IndexPresent(files, c.cache_path)]_vars

\* C5 witness: three calls on one root answering false, true, false.
C5_Witness ==
    /\ Len(calls) = 3
    /\ \A k \in 1..3 : calls[k].cache_path = <<"cache">>
    /\ ~calls[1].ret /\ calls[2].ret /\ ~calls[3].ret
    /\ <<"cache", "sub", "index2.txt">> \in files

(***************************************************************************)
(* Properties of the retrieval.                                            *)
(***************************************************************************)
Terminal ==
    state \in {"Succeeded", "ExhaustedFailed"}

NoCacheHolds ==
    \A i \in 1..Len(servers) : ~servers[i].cached

AllNotFound ==
    \A i \in 1..Len(servers) : servers[i].response = "not_found"

\* C10: where no cache holds the file, a not-found answer of server i is not
\* fatal: the request goes on to server i+1, the servers are asked in list
\* order and each at most once; and when every server answers not-found the
\* request ends in a not-found failure, never AlreadyExists or DownloadedOk.
C10_NotFoundFallsThrough ==
    state \in RetrievalStates =>
        /\ \A k \in 1..Len(attempts) :
               /\ attempts[k] \in 1..Len(servers)
               /\ \A j \in 1..(k - 1) : attempts[j] < attempts[k]
        /\ Len(errors) <= Len(attempts)
        /\ \A k \in 1..Len(errors) :
               (errors[k] = "FileNotFound" /\ attempts[k] < Len(servers))
                   => idx > attempts[k]
        /\ (NoCacheHolds /\ AllNotFound) =>
               /\ \A k \in 1..Len(attempts) : attempts[k] = k
               /\ ~Terminal => ENABLED NextRetrieve
               /\ Terminal =>
                      /\ state = "ExhaustedFailed"
                      /\ outcome = [error |-> "FileNotFound"]
                      /\ attempts = [k \in 1..Len(servers) |-> k]

\* C10 witness: three servers, none caching the file, all answering not-found,
\* asked in order, the request failed.
C10_Witness ==
    /\ state = "ExhaustedFailed"
    /\ Len(servers) = 3
    /\ NoCacheHolds /\ AllNotFound
    /\ attempts = <<1, 2, 3>>
    /\ errors = <<"FileNotFound", "FileNotFound", "FileNotFound">>
    /\ outcome = [error |-> "FileNotFound"]

====
